---- MODULE Spec2Model ----
(***************************************************************************)
(* MemobaseManager (memobase_client.py): a session manager in front of a   *)
(* remote memory service.  Callers are asyncio tasks on one event loop;    *)
(* a task runs atomically from one await to the next.  pc[c] names the     *)
(* await at which task c is suspended; an action is the return of that     *)
(* await together with all the code that runs up to the next await.        *)
(***************************************************************************)
EXTENDS Integers, Sequences, FiniteSets, TLC

VARIABLES
    connected,        \* self._connected
    user_id,          \* self.user_id
    user,             \* self.user (remote user handle)
    connection_lock,  \* self._connection_lock: [locked, waiters]
    pc,               \* per task: the await it is suspended on
    op,               \* per task: the public method it is executing
    result,           \* per task: what the method returned
    retry_count,      \* per task: local retry_count of get_user_profile
    arg,              \* per task: argument of the remote call in flight
    trace,            \* per task: remote calls completed during this call
    log,              \* per task: LOGGER levels emitted during this call
    waited,           \* per task: connect sequence in flight when it queued on the lock (0: did not queue)
    input,            \* per task: the arguments of the method it is executing
    inserted,         \* per task: the ChatBlob its insert call in flight submitted
    calls,            \* per task: number of public methods invoked so far
    issued,           \* remote service: number of calls received per method
    created,          \* remote service: number of users created by add_user
    outcomes,         \* outcomes of the connect sequences run so far, in order
    supplied          \* the user_id argument the manager was constructed with

vars == <<connected, user_id, user, connection_lock, pc, op, result,
          retry_count, arg, trace, log, waited, input, inserted, calls,
          issued, created, outcomes, supplied>>

----
\* Bounds of the model.
NumCallers == 2
MaxCalls == 2

Callers == 1..NumCallers

\* Python values are modelled as strings.
None == "None"
True == "True"
False == "False"
Raised == "raised"       \* an exception left the method
Pending == "pending"     \* the method has not returned yet

Methods == {"connect", "store_conversation", "get_user_profile",
            "flush_buffer", "get_user_id"}
RemoteMethods == {"ping", "get_user", "add_user", "insert", "context", "flush"}

\* User ids a manager may be constructed with.
SuppliedIds == {None, "u0"}
\* Summaries the remote context call may produce.
Summaries == {"s1"}

\* Python truthiness of `self.user_id`.
Truthy(v) == v # None /\ v # ""

\* Handle the remote get_user returns for an id.
Handle(id) == "user:" \o id
\* Identifier the remote add_user assigns to its n-th user.
NewId(n) == "n" \o ToString(n)

\* Arguments store_conversation is called with; assistant_name may be
\* omitted.
Omitted == "omitted"
UserMessages == {"hi", "hello"}
AssistantResponses == {"hello"}
AssistantNames == {Omitted, "Bot"}
StoreInputs ==
    [user_message : UserMessages, assistant_response : AssistantResponses,
     assistant_name : AssistantNames]
NoInput ==
    [user_message |-> None, assistant_response |-> None,
     assistant_name |-> None]
Inputs(o) == IF o = "store_conversation" THEN StoreInputs ELSE {NoInput}

\* store_conversation: the default of assistant_name and the messages list
\* wrapped in ChatBlob.
AliasIgnored(n) == "Assistant"
NameOrDefault(n) == IF n = Omitted THEN "Assistant" ELSE n
ChatBlob(i) ==
    << [role |-> "user", content |-> i.user_message],
       [role |-> "assistant", content |-> i.assistant_response,
        alias |-> NameOrDefault(i.assistant_name)] >>

BoolStr(b) == IF b THEN True ELSE False

Bump(cnt, m) == IF m = "none" THEN cnt ELSE [cnt EXCEPT ![m] = @ + 1]

\* Continuation of a task after a step: where it suspends next (or "done"),
\* the remote call it issues, and what it appends to its trace and log.
K(p, res, a, m, rc, tr, lg) ==
    [pc |-> p, result |-> res, arg |-> a, call |-> m, retry |-> rc,
     trace |-> tr, log |-> lg]

Done(res, rc, tr, lg) == K("done", res, None, "none", rc, tr, lg)
Await(p, a, m, rc) == K(p, Pending, a, m, rc, <<>>, <<>>)

----
\* asyncio.Lock: a free lock with no queued waiter is taken without
\* suspending; otherwise the task queues and is resumed in FIFO order.
LockAlwaysFree(l) == TRUE
LockFree(l) == ~l.locked /\ l.waiters = <<>>
Acquired(l) == [l EXCEPT !.locked = TRUE]
Queued(l, c) == [l EXCEPT !.waiters = Append(@, c)]
Resumed(l) == [locked |-> TRUE, waiters |-> Tail(l.waiters)]
NotReleased(l) == l
Released(l) == [l EXCEPT !.locked = FALSE]

\* Awaits inside `async with self._connection_lock`.
ConnectPcs == {"ping", "get_user", "add_user_fallback", "get_user_fallback",
               "add_user_new", "get_user_new"}
HoldsLock(p) == p \in ConnectPcs

\* Outcomes of the remote calls.
Raise == "raise"
Ok == "ok"
PingResults == {True, False, Raise}
CallResults == {Ok, Raise}

----
\* get_user_profile: max_retries and the delay passed to asyncio.sleep.
max_retries == 3
SleepDelay == 1

\* Values returned by the except clauses and failed connection checks.
ConnectOnError == False
StorePropagates == Raised
StoreOnError == False
ProfileOnError == ""
FlushErrorSwallowed == True
FlushOnError == False

AttrError(m) == <<m, None, "AttributeError">>

\* store_conversation: `await self.user.insert(...)` inside its try.
StartInsert(usr) ==
    IF usr = None
    THEN Done(StoreOnError, 0, <<AttrError("insert")>>, <<"error">>)
    ELSE Await("insert", usr, "insert", 0)

\* flush_buffer: `await self.user.flush()` inside its try.
StartFlush(usr) ==
    IF usr = None
    THEN Done(FlushOnError, 0, <<AttrError("flush")>>, <<"error">>)
    ELSE Await("flush", usr, "flush", 0)

\* get_user_profile: the except clause of the retry loop.
GiveUpLate(n) == n > max_retries
ShouldGiveUp(n) == n >= max_retries
ContextFailed(rc) ==
    LET n == rc + 1
    IN  IF ShouldGiveUp(n)
        THEN Done(ProfileOnError, n, <<>>, <<"warning">>)
        ELSE K("sleep", Pending, None, "none", n, <<>>, <<"warning">>)

\* Prepend the event of the call that just completed, and its log lines.
With(k, ev, lg) == [k EXCEPT !.trace = <<ev>> \o @, !.log = lg \o @]

\* get_user_profile: one iteration of `while retry_count < max_retries`.
StartContext(rc, usr) ==
    IF rc < max_retries
    THEN IF usr = None
         THEN With(ContextFailed(rc), AttrError("context"), <<>>)
         ELSE Await("context", usr, "context", rc)
    ELSE Done(None, rc, <<>>, <<>>)

\* The body of a public method after its connection check has passed.
StartOp(o, usr) ==
    CASE o = "store_conversation" -> StartInsert(usr)
      [] o = "get_user_profile"   -> StartContext(0, usr)
      [] o = "flush_buffer"       -> StartFlush(usr)
      [] OTHER                    -> Done(True, 0, <<>>, <<>>)

\* Sentinel a method returns when its connection check fails.
Sentinel(o) ==
    CASE o = "store_conversation" -> False
      [] o = "get_user_profile"   -> ""
      [] o = "flush_buffer"       -> False
      [] OTHER                    -> False

\* What the caller of connect() does with its result r: connect() itself
\* returns it; the other methods evaluate `not await self.connect()`.
AfterConnectUnchecked(o, r, usr) ==
    IF o = "connect" THEN Done(r, 0, <<>>, <<>>) ELSE StartOp(o, usr)
AfterConnect(o, r, usr) ==
    IF r = Raised THEN Done(Raised, 0, <<>>, <<>>)
    ELSE IF o = "connect" THEN Done(r, 0, <<>>, <<>>)
    ELSE IF r = True THEN StartOp(o, usr)
    ELSE Done(Sentinel(o), 0, <<>>, <<>>)

\* connect(): the two checks of self._connected.
AlreadyConnected(flag) == flag
NoRecheck(flag) == FALSE
ConnectedInsideLock(flag) == flag

\* connect(): the body of `async with` up to the first await.
InsideLockNoSequence(o, flag, usr) == AfterConnect(o, BoolStr(flag), usr)
InsideLock(o, flag, usr) ==
    IF ConnectedInsideLock(flag)
    THEN AfterConnect(o, True, usr)
    ELSE Await("ping", None, "ping", 0)

\* get_user_id()
UngatedUserId(flag, id) == id
GetUserId(flag, id) == IF flag THEN id ELSE None

----
\* State after MemobaseManager.__init__; no task has called anything yet.
Init ==
    /\ connected = FALSE
    /\ user_id \in SuppliedIds
    /\ user = None
    /\ connection_lock = [locked |-> FALSE, waiters |-> <<>>]
    /\ pc = [c \in Callers |-> "idle"]
    /\ op = [c \in Callers |-> "none"]
    /\ result = [c \in Callers |-> Pending]
    /\ retry_count = [c \in Callers |-> 0]
    /\ arg = [c \in Callers |-> None]
    /\ trace = [c \in Callers |-> <<>>]
    /\ log = [c \in Callers |-> <<>>]
    /\ waited = [c \in Callers |-> 0]
    /\ input = [c \in Callers |-> NoInput]
    /\ inserted = [c \in Callers |-> <<>>]
    /\ calls = [c \in Callers |-> 0]
    /\ issued = [m \in RemoteMethods |-> 0]
    /\ created = 0
    /\ outcomes = <<>>
    /\ supplied = user_id

\* Task c moves to continuation k, appending to its trace and log.
Step(c, k) ==
    /\ pc' = [pc EXCEPT ![c] = k.pc]
    /\ result' = [result EXCEPT ![c] = k.result]
    /\ arg' = [arg EXCEPT ![c] = k.arg]
    /\ retry_count' = [retry_count EXCEPT ![c] = k.retry]
    /\ issued' = Bump(issued, k.call)
    /\ trace' = [trace EXCEPT ![c] = @ \o k.trace]
    /\ log' = [log EXCEPT ![c] = @ \o k.log]
    /\ inserted' = [inserted EXCEPT ![c] =
                        IF k.call = "insert" THEN ChatBlob(input[c]) ELSE <<>>]
    /\ input' = [input EXCEPT ![c] = IF k.pc = "done" THEN NoInput ELSE @]
    /\ UNCHANGED supplied

\* Task c starts a call: its trace and log start afresh.
Begin(c, o, k) ==
    /\ \E i \in Inputs(o) :
          /\ input' = [input EXCEPT ![c] = IF k.pc = "done" THEN NoInput ELSE i]
          /\ inserted' = [inserted EXCEPT ![c] =
                              IF k.call = "insert" THEN ChatBlob(i) ELSE <<>>]
    /\ calls' = [calls EXCEPT ![c] = @ + 1]
    /\ UNCHANGED supplied
    /\ op' = [op EXCEPT ![c] = o]
    /\ pc' = [pc EXCEPT ![c] = k.pc]
    /\ result' = [result EXCEPT ![c] = k.result]
    /\ arg' = [arg EXCEPT ![c] = k.arg]
    /\ retry_count' = [retry_count EXCEPT ![c] = k.retry]
    /\ issued' = Bump(issued, k.call)
    /\ trace' = [trace EXCEPT ![c] = k.trace]
    /\ log' = [log EXCEPT ![c] = k.log]

RECURSIVE SumTo(_, _)
SumTo(f, n) == IF n = 0 THEN 0 ELSE f[n] + SumTo(f, n - 1)
TotalCalls == SumTo(calls, NumCallers)

\* Tasks are interchangeable: task c makes its first call after task c - 1
\* has made one.
CanCall(c) ==
    /\ pc[c] \in {"idle", "done"}
    /\ TotalCalls < MaxCalls
    /\ IF c = 1 THEN TRUE ELSE op[c - 1] # "none"

\* get_user_id(): synchronous, touches nothing.
get_user_id(c) ==
    /\ CanCall(c)
    /\ Begin(c, "get_user_id", Done(GetUserId(connected, user_id), 0, <<>>, <<>>))
    /\ waited' = [waited EXCEPT ![c] = 0]
    /\ UNCHANGED <<connected, user_id, user, connection_lock, created, outcomes>>

\* A method whose connection check passes at once
\* (`if not self._connected and ...` short-circuits).
CallConnected(c, o) ==
    /\ CanCall(c)
    /\ o \in Methods \ {"connect", "get_user_id"}
    /\ connected
    /\ Begin(c, o, StartOp(o, user))
    /\ waited' = [waited EXCEPT ![c] = 0]
    /\ UNCHANGED <<connected, user_id, user, connection_lock, created, outcomes>>

\* connect(), called directly or by a method that is not connected,
\* from its entry up to its first suspension.
EnterConnect(c, o) ==
    /\ CanCall(c)
    /\ o \in Methods \ {"get_user_id"}
    /\ o = "connect" \/ ~connected
    /\ IF AlreadyConnected(connected)
       THEN /\ Begin(c, o, AfterConnect(o, True, user))
            /\ waited' = [waited EXCEPT ![c] = 0]
            /\ UNCHANGED connection_lock
       ELSE IF LockFree(connection_lock)
       THEN LET k == InsideLock(o, connected, user)
            IN  /\ Begin(c, o, k)
                /\ waited' = [waited EXCEPT ![c] = 0]
                /\ connection_lock' = IF HoldsLock(k.pc)
                                      THEN Acquired(connection_lock)
                                      ELSE connection_lock
       ELSE /\ Begin(c, o, Await("lock_wait", None, "none", 0))
            /\ waited' = [waited EXCEPT ![c] = Len(outcomes) + 1]
            /\ connection_lock' = Queued(connection_lock, c)
    /\ UNCHANGED <<connected, user_id, user, created, outcomes>>

\* A queued task is resumed with the lock and re-checks self._connected.
AcquireLock(c) ==
    /\ pc[c] = "lock_wait"
    /\ ~connection_lock.locked
    /\ connection_lock.waiters # <<>>
    /\ Head(connection_lock.waiters) = c
    /\ LET k == InsideLock(op[c], connected, user)
       IN  /\ Step(c, k)
           /\ connection_lock' = IF HoldsLock(k.pc)
                                 THEN Resumed(connection_lock)
                                 ELSE Released(Resumed(connection_lock))
    /\ UNCHANGED <<connected, user_id, user, op, waited, calls, created, outcomes>>

\* connect() leaves the `async with` block returning r.
ExitConnect(c, r, ev, lg) ==
    /\ connection_lock' = Released(connection_lock)
    /\ outcomes' = Append(outcomes, IF r = True THEN "ok" ELSE "fail")
    /\ Step(c, With(AfterConnect(op[c], r, user'), ev, lg))
    /\ UNCHANGED <<op, waited, calls>>

\* connect() failed: self._connected is not touched.
FailConnectMarked(c, r, ev) ==
    /\ ExitConnect(c, r, ev, <<"error">>)
    /\ connected' = TRUE
FailConnect(c, r, ev) ==
    /\ ExitConnect(c, r, ev, <<"error">>)
    /\ UNCHANGED connected

\* `if not await self.client.ping()`
PingIgnored(r) == TRUE
PingSucceeded(r) == r = True

\* `await self.client.ping()` returns or raises.
PingReturn(c, r) ==
    /\ pc[c] = "ping"
    /\ r \in PingResults
    /\ LET ev == <<"ping", None, r>>
       IN  CASE r # Raise /\ PingSucceeded(r) ->
                  /\ Step(c, With(IF Truthy(user_id)
                                  THEN Await("get_user", user_id, "get_user", 0)
                                  ELSE Await("add_user_new", None, "add_user", 0),
                                  ev, <<>>))
                  /\ UNCHANGED <<connected, user_id, user, connection_lock,
                                 op, waited, calls, created, outcomes>>
             [] r # Raise ->
                  /\ UNCHANGED <<user_id, user, created>>
                  /\ FailConnect(c, False, ev)
             [] OTHER ->
                  /\ UNCHANGED <<user_id, user, created>>
                  /\ FailConnect(c, ConnectOnError, ev)

\* Assignments of the identity resolution in connect().
NoUser(h) == None
StoredUser(h) == h                  \* self.user = await get_user(...)
KeepUserId(old, new) == old
StoredUserId(old, new) == new       \* self.user_id = await add_user(...)
NotMarked == FALSE
MarkConnected == TRUE               \* self._connected = True

\* Identity resolved: store the handle, set the flag, return True.
Resolved(c, ev) ==
    /\ user' = StoredUser(Handle(arg[c]))
    /\ connected' = MarkConnected
    /\ ExitConnect(c, True, ev, <<"info">>)
    /\ UNCHANGED <<user_id, created>>

\* `get_user(self.user_id)` reads the identifier after the assignment.
FetchedStaleId(old, new) == old
FetchedId(old, new) == new

\* add_user returned a fresh id: store it and fetch that user.
Created(c, ev, nextpc) ==
    LET id == StoredUserId(user_id, NewId(created + 1))
    IN  /\ user_id' = id
        /\ created' = created + 1
        /\ Step(c, With(Await(nextpc, FetchedId(user_id, id), "get_user", 0),
                        ev, <<>>))
        /\ UNCHANGED <<connected, user, connection_lock, op, waited, calls,
                       outcomes>>

\* An exception reaches the outer except clause of connect().
ConnectErrorRestoresId(c, ev) ==
    /\ user_id' = supplied
    /\ UNCHANGED <<user, created>>
    /\ FailConnect(c, ConnectOnError, ev)
ConnectError(c, ev) ==
    /\ UNCHANGED <<user_id, user, created>>
    /\ FailConnect(c, ConnectOnError, ev)

\* `await self.client.get_user(self.user_id)` for the supplied id.
GetUserReturn(c, r) ==
    /\ pc[c] = "get_user"
    /\ r \in CallResults
    /\ LET ev == <<"get_user", arg[c], r>>
       IN  IF r = Ok
           THEN Resolved(c, ev)
           ELSE /\ Step(c, With(Await("add_user_fallback", None, "add_user", 0),
                                ev, <<"warning">>))
                /\ UNCHANGED <<connected, user_id, user, connection_lock, op,
                               waited, calls, created, outcomes>>

\* `await self.client.add_user(...)` after the supplied id was rejected.
AddUserFallbackReturn(c, r) ==
    /\ pc[c] = "add_user_fallback"
    /\ r \in CallResults
    /\ IF r = Ok
       THEN Created(c, <<"add_user", None, NewId(created + 1)>>, "get_user_fallback")
       ELSE ConnectError(c, <<"add_user", None, r>>)

\* `await self.client.get_user(self.user_id)` for the fallback user.
GetUserFallbackReturn(c, r) ==
    /\ pc[c] = "get_user_fallback"
    /\ r \in CallResults
    /\ LET ev == <<"get_user", arg[c], r>>
       IN  IF r = Ok THEN Resolved(c, ev) ELSE ConnectError(c, ev)

\* `await self.client.add_user(...)` when no id was supplied.
AddUserNewReturn(c, r) ==
    /\ pc[c] = "add_user_new"
    /\ r \in CallResults
    /\ IF r = Ok
       THEN Created(c, <<"add_user", None, NewId(created + 1)>>, "get_user_new")
       ELSE ConnectError(c, <<"add_user", None, r>>)

\* `await self.client.get_user(self.user_id)` for the new user.
GetUserNewReturn(c, r) ==
    /\ pc[c] = "get_user_new"
    /\ r \in CallResults
    /\ LET ev == <<"get_user", arg[c], r>>
       IN  IF r = Ok THEN Resolved(c, ev) ELSE ConnectError(c, ev)

\* A step of a method body: the session state is only read.
UserOpStepDropsHandle(c, k) ==
    /\ Step(c, k)
    /\ user' = IF k.pc = "done" /\ k.result \in {False, ""} THEN None ELSE user
    /\ UNCHANGED <<connected, user_id, connection_lock, op, waited,
                   calls, created, outcomes>>
UserOpStep(c, k) ==
    /\ Step(c, k)
    /\ UNCHANGED <<connected, user_id, user, connection_lock, op, waited,
                   calls, created, outcomes>>

\* `await self.user.insert(...)` returns or raises.
InsertReturn(c, r) ==
    /\ pc[c] = "insert"
    /\ r \in CallResults
    /\ LET ev == <<"insert", arg[c], r>>
       IN  IF r = Ok
           THEN UserOpStep(c, Done(True, 0, <<ev>>, <<"debug">>))
           ELSE UserOpStep(c, Done(StoreOnError, 0, <<ev>>, <<"error">>))

\* get_user_profile: `return context`
DroppedContext(ctx) == ""
ReturnedContext(ctx) == ctx

\* `await self.user.context(...)` returns a summary or raises.
ContextReturn(c, r) ==
    /\ pc[c] = "context"
    /\ r \in Summaries \cup {Raise}
    /\ LET ev == <<"context", arg[c], r>>
       IN  IF r # Raise
           THEN UserOpStep(c, Done(ReturnedContext(r), retry_count[c], <<ev>>, <<>>))
           ELSE UserOpStep(c, With(ContextFailed(retry_count[c]), ev, <<>>))

\* `await asyncio.sleep(1)` returns and the loop tests its condition again.
SleepReturn(c) ==
    /\ pc[c] = "sleep"
    /\ UserOpStep(c, With(StartContext(retry_count[c], user),
                          <<"sleep", ToString(SleepDelay), Ok>>, <<>>))

\* `await self.user.flush()` returns or raises.
FlushReturn(c, r) ==
    /\ pc[c] = "flush"
    /\ r \in CallResults
    /\ LET ev == <<"flush", arg[c], r>>
       IN  IF r = Ok
           THEN UserOpStep(c, Done(True, 0, <<ev>>, <<"info">>))
           ELSE UserOpStep(c, Done(FlushOnError, 0, <<ev>>, <<"error">>))

Next ==
    \E c \in Callers :
        \/ get_user_id(c)
        \/ \E o \in Methods : CallConnected(c, o)
        \/ \E o \in Methods : EnterConnect(c, o)
        \/ AcquireLock(c)
        \/ \E r \in PingResults : PingReturn(c, r)
        \/ \E r \in CallResults : GetUserReturn(c, r)
        \/ \E r \in CallResults : AddUserFallbackReturn(c, r)
        \/ \E r \in CallResults : GetUserFallbackReturn(c, r)
        \/ \E r \in CallResults : AddUserNewReturn(c, r)
        \/ \E r \in CallResults : GetUserNewReturn(c, r)
        \/ \E r \in CallResults : InsertReturn(c, r)
        \/ \E r \in Summaries \cup {Raise} : ContextReturn(c, r)
        \/ SleepReturn(c)
        \/ \E r \in CallResults : FlushReturn(c, r)

Spec == Init /\ [][Next]_vars

\* The event loop resumes every task that is ready to run, and every
\* remote call and sleep eventually returns or raises.
Resume(c) ==
    \/ AcquireLock(c)
    \/ \E r \in PingResults : PingReturn(c, r)
    \/ \E r \in CallResults : GetUserReturn(c, r)
    \/ \E r \in CallResults : AddUserFallbackReturn(c, r)
    \/ \E r \in CallResults : GetUserFallbackReturn(c, r)
    \/ \E r \in CallResults : AddUserNewReturn(c, r)
    \/ \E r \in CallResults : GetUserNewReturn(c, r)
    \/ \E r \in CallResults : InsertReturn(c, r)
    \/ \E r \in Summaries \cup {Raise} : ContextReturn(c, r)
    \/ SleepReturn(c)
    \/ \E r \in CallResults : FlushReturn(c, r)

\* The connect guard alone: tasks call connect() directly.
ConnectNext ==
    \E c \in Callers :
        \/ EnterConnect(c, "connect")
        \/ AcquireLock(c)
        \/ \E r \in PingResults : PingReturn(c, r)
        \/ \E r \in CallResults : GetUserReturn(c, r)
        \/ \E r \in CallResults : AddUserFallbackReturn(c, r)
        \/ \E r \in CallResults : GetUserFallbackReturn(c, r)
        \/ \E r \in CallResults : AddUserNewReturn(c, r)
        \/ \E r \in CallResults : GetUserNewReturn(c, r)

ConnectSpec ==
    Init /\ [][ConnectNext]_vars /\ \A c \in Callers : WF_vars(Resume(c))

----
\* Observations on a task's trace of completed remote calls.
Events(tr, ms) == {i \in DOMAIN tr : tr[i][1] \in ms}
Count(tr, m) == Cardinality(Events(tr, {m}))
ConnectCalls == {"ping", "get_user", "add_user"}
UserCalls == {"insert", "context", "flush"}

\* Task c has left its connection check (it is neither queued nor inside
\* a connect sequence) without issuing any connect call of its own.
ProceededWithoutConnecting(c) ==
    /\ pc[c] \notin ConnectPcs \cup {"lock_wait", "idle"}
    /\ Events(trace[c], ConnectCalls) = {}

\* The call of task c returned because connect() returned False.
ConnectFailed(c) ==
    /\ pc[c] = "done"
    /\ op[c] \in Methods \ {"get_user_id"}
    /\ result[c] = Sentinel(op[c])
    /\ Events(trace[c], UserCalls \cup {"sleep"}) = {}

FirstSequence(r) == outcomes # <<>> /\ outcomes[1] = r

\* C1: when the first connect sequence succeeds, the remote service sees
\* exactly one ping and one identity resolution (get_user alone, or
\* add_user then get_user, or get_user, add_user, get_user) in total;
\* every task that queued on the lock behind it proceeds as connected
\* without a ping, get_user or add_user of its own.
C1_SingleConnectOnSuccess ==
    FirstSequence("ok") =>
        /\ issued.ping = 1
        /\ \/ issued.add_user = 0 /\ issued.get_user = 1
           \/ issued.add_user = 1 /\ issued.get_user \in {1, 2}
        /\ \A c \in Callers :
              (waited[c] = 1 /\ pc[c] # "lock_wait") =>
                  /\ ProceededWithoutConnecting(c)
                  /\ ~ConnectFailed(c)

C1_Witness ==
    /\ FirstSequence("ok")
    /\ \E c \in Callers :
          /\ waited[c] = 1
          /\ pc[c] = "done"
          /\ op[c] = "store_conversation"
          /\ result[c] = True

\* C2 as stated: when the first connect sequence fails, the tasks that
\* were queued on the lock behind it issue no ping or identity call of
\* their own.
C2_WaitersShareFirstFailure ==
    FirstSequence("fail") =>
        \A c \in Callers :
            waited[c] = 1 =>
                /\ pc[c] \notin ConnectPcs
                /\ Events(trace[c], ConnectCalls) = {}

\* C2 amended: a failure is not shared.  A task that was queued on the
\* lock and resumes while the manager is still unconnected runs its own
\* connect sequence, starting with its own ping; and every call that
\* returns because connect() failed has itself run a sequence that began
\* with a ping and ended in a false ping or a raised error.
C2_EachFailureIsOwnSequence ==
    \A c \in Callers :
        /\ (waited[c] # 0 /\ pc[c] # "lock_wait" /\ ~connected) =>
              \/ pc[c] = "ping"
              \/ Count(trace[c], "ping") = 1
        /\ ConnectFailed(c) =>
              /\ trace[c] # <<>>
              /\ trace[c][1][1] = "ping"
              /\ Count(trace[c], "ping") = 1
              /\ trace[c][Len(trace[c])][3] \in {False, Raise}

C2_Witness ==
    /\ FirstSequence("fail")
    /\ Len(outcomes) = 2
    /\ outcomes[2] = "fail"
    /\ \E c \in Callers : waited[c] = 1 /\ ConnectFailed(c)

\* C3: at most one task is between the start of ping and the end of
\* identity resolution, and such a task holds the connection lock.
C3_AtMostOneConnectInFlight ==
    LET inflight == {c \in Callers : pc[c] \in ConnectPcs}
    IN  /\ Cardinality(inflight) <= 1
        /\ inflight # {} => connection_lock.locked

C3_Witness ==
    \E c, d \in Callers :
        /\ pc[c] \in {"get_user_fallback", "get_user_new"}
        /\ pc[d] = "lock_wait"

----
LastEvent(tr) == tr[Len(tr)]
Failure(ev) == ev[3] \in {False, Raise, "AttributeError"}
Warnings(lg) == Cardinality({i \in DOMAIN lg : lg[i] = "warning"})
Names(tr) == [i \in DOMAIN tr |-> tr[i][1]]
IsConnectCall(ev) == ev[1] \in ConnectCalls

\* C4: no method lets an error out: connect, store_conversation and
\* flush_buffer return True or False and get_user_profile a summary or
\* "", and a call whose last remote call failed returns False or "".
C4_NoErrorPropagates ==
    \A c \in Callers :
        pc[c] = "done" =>
            /\ result[c] # Raised
            /\ op[c] \in {"connect", "store_conversation", "flush_buffer"} =>
                  result[c] \in {True, False}
            /\ op[c] = "get_user_profile" => result[c] \in Summaries \cup {""}
            /\ (op[c] # "get_user_id" /\ trace[c] # <<>>
                  /\ Failure(LastEvent(trace[c]))) =>
                  result[c] = Sentinel(op[c])

C4_Witness ==
    \E c, d \in Callers :
        /\ pc[c] = "done" /\ op[c] = "store_conversation"
        /\ trace[c] # <<>> /\ LastEvent(trace[c])[1] = "insert"
        /\ LastEvent(trace[c])[3] = Raise
        /\ result[c] = False
        /\ pc[d] = "done" /\ op[d] = "connect"
        /\ trace[d] # <<>> /\ LastEvent(trace[d])[1] = "add_user"
        /\ result[d] = False

\* C5: a get_user_profile call on a connected session whose context calls
\* all fail makes exactly 3 attempts with one 1-unit sleep between
\* consecutive attempts and none after the last, logs 3 warnings and
\* returns ""; no call ever makes a 4th attempt.
C5_RetryBound ==
    \A c \in Callers :
        /\ Count(trace[c], "context") + (IF pc[c] = "context" THEN 1 ELSE 0)
              <= max_retries
        /\ (/\ pc[c] = "done"
            /\ op[c] = "get_user_profile"
            /\ Events(trace[c], ConnectCalls) = {}
            /\ trace[c] # <<>>
            /\ \A i \in Events(trace[c], {"context"}) : Failure(trace[c][i])) =>
               /\ Names(trace[c]) =
                     <<"context", "sleep", "context", "sleep", "context">>
               /\ \A i \in Events(trace[c], {"sleep"}) :
                     trace[c][i][2] = ToString(SleepDelay)
               /\ Warnings(log[c]) = 3
               /\ Len(log[c]) = 3
               /\ result[c] = ""

C5_Witness ==
    \E c \in Callers :
        /\ pc[c] = "done"
        /\ op[c] = "get_user_profile"
        /\ Events(trace[c], ConnectCalls) = {}
        /\ Count(trace[c], "context") = 3
        /\ result[c] = ""

\* C6: a store_conversation, get_user_profile or flush_buffer call (or a
\* connect) whose ping returned False returns False / "" and has called
\* no remote method but that one ping.
C6_PingFalseIsolates ==
    \A c \in Callers :
        (pc[c] \notin {"ping", "lock_wait", "idle"} /\ trace[c] # <<>>
            /\ trace[c][1] = <<"ping", None, False>>) =>
            /\ pc[c] = "done"
            /\ trace[c] = <<<<"ping", None, False>>>>
            /\ result[c] = Sentinel(op[c])

C6_Witness ==
    \E c, d \in Callers :
        /\ pc[c] = "done" /\ op[c] = "get_user_profile" /\ result[c] = ""
        /\ trace[c] = <<<<"ping", None, False>>>>
        /\ pc[d] = "done" /\ op[d] = "flush_buffer" /\ result[d] = False
        /\ trace[d] = <<<<"ping", None, False>>>>

\* C7: when ping is true and get_user rejects the stored user id, the
\* connect sequence calls add_user exactly once, next; if add_user returns
\* an id the sequence then fetches that id, and if that fetch succeeds
\* the stored identifier is the id add_user returned, the stored handle
\* is that user's, the manager is connected and connect() returned True.
C7_FallbackCreatesUser ==
    \A c \in Callers :
        LET t == SelectSeq(trace[c], IsConnectCall)
        IN  (/\ pc[c] \notin ConnectPcs
             /\ Len(t) >= 2
             /\ t[2][1] = "get_user" /\ t[2][3] = Raise) =>
                /\ Count(t, "add_user") = 1
                /\ t[3][1] = "add_user"
                /\ t[3][3] # Raise =>
                      /\ Len(t) = 4
                      /\ t[4][1] = "get_user"
                      /\ t[4][2] = t[3][3]
                      /\ t[4][2] # t[2][2]
                      /\ t[4][3] = Ok =>
                            /\ user_id = t[3][3]
                            /\ user = Handle(t[3][3])
                            /\ connected
                            /\ (pc[c] = "done" /\ op[c] = "connect") =>
                                  result[c] = True

C7_Witness ==
    \E c \in Callers :
        /\ pc[c] = "done" /\ op[c] = "connect" /\ result[c] = True
        /\ Names(trace[c]) = <<"ping", "get_user", "add_user", "get_user">>
        /\ trace[c][2][2] = "u0"
        /\ user_id = NewId(1)

----
\* Some connect sequence has returned True.
Succeeded == \E i \in DOMAIN outcomes : outcomes[i] = "ok"
\* The call of task c returns in this step.
Returns(c) == pc'[c] = "done" /\ (pc[c] # "done" \/ calls'[c] # calls[c])
\* Task c invokes method o in this step.
Invokes(c, o) == calls'[c] # calls[c] /\ op'[c] = o

\* C8: once a connect sequence has succeeded, no step issues another
\* ping, get_user or add_user, whatever method is called, and every
\* connect() that returns from then on returns True.
C8_ConnectIdempotent ==
    [][Succeeded =>
          /\ issued'.ping = issued.ping
          /\ issued'.get_user = issued.get_user
          /\ issued'.add_user = issued.add_user
          /\ \A c \in Callers :
                (Returns(c) /\ op'[c] = "connect") => result'[c] = True]_vars

C8_Witness ==
    /\ Succeeded
    /\ \E c \in Callers :
          /\ pc[c] = "done" /\ op[c] = "connect" /\ result[c] = True
          /\ trace[c] = <<>>
          /\ waited[c] = 0

\* C9: get_user_id() returns at once, without any remote call or
\* connection attempt; it returns None as long as no connect sequence has
\* succeeded (whatever id was supplied, and while a sequence is in
\* flight), and afterwards the stored identifier, which is the id of the
\* user whose handle is stored.
C9_AccessorGating ==
    [][\A c \in Callers :
          Invokes(c, "get_user_id") =>
              /\ pc'[c] = "done"
              /\ trace'[c] = <<>>
              /\ issued' = issued
              /\ connection_lock' = connection_lock
              /\ <<connected', user_id', user'>> = <<connected, user_id, user>>
              /\ IF Succeeded
                 THEN /\ result'[c] = user_id
                      /\ result'[c] # None
                      /\ Handle(result'[c]) = user
                 ELSE result'[c] = None]_vars

C9_Witness ==
    \E c, d \in Callers :
        /\ pc[c] = "done" /\ op[c] = "get_user_id" /\ result[c] = NewId(1)
        /\ pc[d] = "done" /\ op[d] = "connect" /\ result[d] = True
        /\ Names(trace[d]) = <<"ping", "add_user", "get_user">>

\* get_user_id() is called while a connect sequence is in flight on a
\* manager constructed with a user id, and returns None.
C9_WitnessInFlight ==
    \E c, d \in Callers :
        /\ pc[c] = "done" /\ op[c] = "get_user_id" /\ result[c] = None
        /\ pc[d] = "get_user" /\ user_id = "u0"

\* C10: whenever connected is true the user handle is not None, and once
\* connected is true every step (failed insert, context and flush calls
\* included) leaves it true and leaves the handle as it is.
C10_ConnectedHasUser ==
    /\ [](connected => user # None)
    /\ [][connected => (connected' /\ user' = user)]_vars

C10_Witness ==
    /\ connected
    /\ user # None
    /\ \E c, d \in Callers :
          /\ pc[c] = "done" /\ op[c] = "flush_buffer" /\ result[c] = False
          /\ LastEvent(trace[c]) = <<"flush", user, Raise>>
          /\ pc[d] = "done" /\ op[d] = "store_conversation" /\ result[d] = False
          /\ LastEvent(trace[d]) = <<"insert", user, Raise>>

----
IsProfileCall(ev) == ev[1] \in {"context", "sleep"}
\* The attempts and delays of a get_user_profile call, in order.
Attempts(k) ==
    [i \in 1..(2 * k - 1) |-> IF i % 2 = 1 THEN "context" ELSE "sleep"]

\* C11: when a get_user_profile call gets a summary from context, that
\* was its last remote call, on attempt k of at most 3: the k - 1 attempts
\* before it raised, each followed by one sleep, no attempt or sleep
\* follows it, and the call returns that summary; on a session that was
\* already connected it logged k - 1 warnings.
C11_SuccessOnAttemptK ==
    \A c \in Callers :
        LET t == SelectSeq(trace[c], IsProfileCall)
            k == Count(trace[c], "context")
        IN  (/\ op[c] = "get_user_profile"
             /\ \E i \in Events(trace[c], {"context"}) :
                   trace[c][i][3] \in Summaries) =>
                /\ pc[c] = "done"
                /\ k \in 1..max_retries
                /\ Names(t) = Attempts(k)
                /\ LastEvent(trace[c]) = LastEvent(t)
                /\ LastEvent(t)[3] \in Summaries
                /\ \A i \in 1..(Len(t) - 1) :
                      t[i][1] = "context" => t[i][3] = Raise
                /\ result[c] = LastEvent(t)[3]
                /\ retry_count[c] = k - 1
                /\ Events(trace[c], ConnectCalls) = {} =>
                      /\ Warnings(log[c]) = k - 1
                      /\ Len(log[c]) = k - 1

C11_Witness ==
    \E c \in Callers :
        /\ pc[c] = "done" /\ op[c] = "get_user_profile"
        /\ Events(trace[c], ConnectCalls) = {}
        /\ Names(trace[c]) = Attempts(3)
        /\ trace[c][3][3] = Raise
        /\ result[c] = "s1"

----
\* C12: the record a store_conversation call submits to insert has exactly
\* two entries, in order: the user turn with the user_message, then the
\* assistant turn with the assistant_response and, as alias, the
\* assistant_name, "Assistant" when none was given; nothing is submitted
\* by a task that has no insert call in flight.
C12_ExchangeRecord ==
    \A c \in Callers :
        IF pc[c] = "insert"
        THEN /\ op[c] = "store_conversation"
             /\ input[c] \in StoreInputs
             /\ Len(inserted[c]) = 2
             /\ inserted[c][1] =
                   [role |-> "user", content |-> input[c].user_message]
             /\ inserted[c][2] =
                   [role |-> "assistant",
                    content |-> input[c].assistant_response,
                    alias |-> IF input[c].assistant_name = Omitted
                              THEN "Assistant"
                              ELSE input[c].assistant_name]
        ELSE inserted[c] = <<>>

C12_Witness ==
    \E c, d \in Callers :
        /\ pc[c] = "insert" /\ pc[d] = "insert"
        /\ input[c].assistant_name = "Bot"
        /\ inserted[c][2].alias = "Bot"
        /\ input[d].assistant_name = Omitted
        /\ inserted[d][2].alias = "Assistant"
        /\ inserted[c][1].content = "hi"
        /\ inserted[c][2].content = "hello"

----
LastOutcome(r) == outcomes # <<>> /\ outcomes[Len(outcomes)] = r

\* C13: when a connect sequence has returned False (ping false, ping
\* raising, add_user raising, or get_user raising after add_user), then
\* at that return and until another sequence completes the manager is
\* unconnected and holds no user handle (an unconnected manager never
\* holds one); and when a single sequence has run, a call that returned
\* because connect() failed is the one that ran it.
C13_FailedConnectLeavesUnconnected ==
    /\ LastOutcome("fail") => (~connected /\ user = None)
    /\ ~connected => user = None
    /\ \A c \in Callers :
          (ConnectFailed(c) /\ Len(outcomes) = 1) => LastOutcome("fail")

C13_Witness ==
    /\ LastOutcome("fail")
    /\ ~connected /\ user = None
    /\ \E c \in Callers :
          /\ pc[c] = "done" /\ op[c] = "connect" /\ result[c] = False
          /\ Names(trace[c]) = <<"ping", "get_user", "add_user", "get_user">>
          /\ LastEvent(trace[c])[3] = Raise

----
\* No connect sequence is executing and no task is queued for one.
NoSequenceRunning ==
    /\ \A c \in Callers : pc[c] \notin ConnectPcs \cup {"lock_wait"}
    /\ ~connection_lock.locked
    /\ connection_lock.waiters = <<>>

\* C14: a failed connect is not latched.  While every connect sequence so
\* far has failed, a call to connect() or to a method needing a connection
\* made when no sequence is running starts a new sequence with a new ping
\* (made while one is running, it queues, and when resumed it pings); and
\* a sequence that then succeeds leaves the manager connected.
C14_FailureNotLatched ==
    [][(outcomes # <<>> /\ ~Succeeded) =>
          /\ \A c \in Callers :
                /\ (calls'[c] # calls[c] /\ op'[c] # "get_user_id") =>
                      IF NoSequenceRunning
                      THEN /\ pc'[c] = "ping"
                           /\ issued'.ping = issued.ping + 1
                      ELSE pc'[c] = "lock_wait"
                /\ (pc[c] = "lock_wait" /\ pc'[c] # "lock_wait") =>
                      /\ pc'[c] = "ping"
                      /\ issued'.ping = issued.ping + 1
          /\ (Len(outcomes') > Len(outcomes)
                /\ outcomes'[Len(outcomes')] = "ok") =>
                (connected' /\ user' # None)]_vars

C14_Witness ==
    /\ Len(outcomes) = 2
    /\ outcomes[1] = "fail" /\ outcomes[2] = "ok"
    /\ connected
    /\ \E c, d \in Callers :
          /\ pc[c] = "done" /\ op[c] = "connect" /\ result[c] = False
          /\ pc[d] = "done" /\ op[d] = "connect" /\ result[d] = True
          /\ waited[d] = 0
          /\ trace[d][1] = <<"ping", None, True>>

----
InConnect(c) == pc[c] \in ConnectPcs \cup {"lock_wait"}

\* C15: the lock is held only while a task is inside a connect sequence,
\* so it is free after every exit of connect(); and, remote calls
\* returning, every task queued on the lock eventually gets it and every
\* task inside connect() eventually leaves it.
C15_GuardReleased ==
    /\ [](connection_lock.locked <=> \E c \in Callers : pc[c] \in ConnectPcs)
    /\ \A c \in Callers : InConnect(c) ~> ~InConnect(c)

C15_Witness ==
    /\ ~connection_lock.locked
    /\ connection_lock.waiters = <<>>
    /\ Len(outcomes) = 2
    /\ outcomes[1] = "fail"
    /\ \E c, d \in Callers :
          /\ waited[c] = 1 /\ pc[c] = "done"
          /\ pc[d] = "done" /\ trace[d] # <<>>
          /\ LastEvent(trace[d]) = <<"ping", None, Raise>>

----
Session == <<connected, user_id, user>>

\* C16: a step changes connected, the user identifier or the user handle
\* only if it is the step of a task that holds the connection lock inside
\* a connect sequence, after its ping (add_user returning changes the
\* identifier alone); and on a connected session no step of any method,
\* whether its remote call succeeds or fails, changes any of the three.
C16_SessionWrittenUnderGuard ==
    [][/\ Session' # Session =>
             \E c \in Callers :
                 /\ pc[c] \in ConnectPcs \ {"ping"}
                 /\ pc'[c] # pc[c]
                 /\ connection_lock.locked
                 /\ \A d \in Callers \ {c} : pc[d] \notin ConnectPcs
                 /\ pc[c] \in {"add_user_fallback", "add_user_new"} =>
                       (connected' = connected /\ user' = user)
       /\ connected => Session' = Session]_vars

C16_Witness ==
    /\ connected
    /\ \E c, d \in Callers :
          /\ pc[c] = "done" /\ op[c] = "get_user_profile" /\ result[c] = ""
          /\ Count(trace[c], "context") = 3
          /\ pc[d] = "done" /\ op[d] = "get_user_id" /\ result[d] = user_id

----
\* The remote method a method body calls, once.
BodyCall(o) == IF o = "store_conversation" THEN "insert" ELSE "flush"

\* C17: store_conversation and flush_buffer never retry: a call issues its
\* remote method (insert, respectively flush) at most once and never
\* sleeps; a call that passed its connection check returns right after
\* that single call, True if it returned and False if it raised, and a
\* call that issued none returned False because connect() failed.
C17_NoRetry ==
    \A c \in Callers :
        op[c] \in {"store_conversation", "flush_buffer"} =>
            LET m == BodyCall(op[c])
                n == Count(trace[c], m)
            IN  /\ n + (IF pc[c] = m THEN 1 ELSE 0) <= 1
                /\ Events(trace[c], (UserCalls \cup {"sleep"}) \ {m}) = {}
                /\ pc[c] \in {"insert", "flush"} => pc[c] = m
                /\ n = 1 =>
                      /\ pc[c] = "done"
                      /\ LastEvent(trace[c])[1] = m
                      /\ result[c] = True <=> LastEvent(trace[c])[3] = Ok
                      /\ result[c] = False <=> LastEvent(trace[c])[3] = Raise
                /\ (pc[c] = "done" /\ n = 0) =>
                      (result[c] = False /\ ConnectFailed(c))

C17_Witness ==
    \E c, d \in Callers :
        /\ pc[c] = "done" /\ op[c] = "flush_buffer" /\ result[c] = False
        /\ trace[c] = <<<<"flush", user, Raise>>>>
        /\ pc[d] = "done" /\ op[d] = "store_conversation" /\ result[d] = True
        /\ Count(trace[d], "insert") = 1

----
\* A task is between add_user returning and the end of its sequence.
FetchingCreated == \E c \in Callers : pc[c] \in {"get_user_fallback", "get_user_new"}

\* C18 as stated: failed connects leave the stored identifier as it was,
\* so as long as no connect has succeeded and no sequence is fetching a
\* user it has just created, the identifier is the one the manager was
\* constructed with.
C18_IdentifierRestoredOnFailure ==
    (~Succeeded /\ ~FetchingCreated) => user_id = supplied

\* C18 amended: a failed connect leaves the identifier unchanged only if
\* add_user did not return an id in it.  The identifier is the constructed
\* one until add_user first returns, and from then on the id add_user last
\* returned, kept when the fetch of that user fails; the next sequence
\* then fetches that id with get_user, and add_user is called first only
\* by a manager constructed without an id for which no user was created.
C18_CreatedIdentifierRetained ==
    /\ user_id = IF created = 0 THEN supplied ELSE NewId(created)
    /\ \A c \in Callers :
          /\ pc[c] = "get_user" => (arg[c] = user_id /\ Truthy(user_id))
          /\ pc[c] = "add_user_new" => (created = 0 /\ ~Truthy(supplied))
          /\ (ConnectFailed(c) /\ Len(outcomes) = 1 /\ ~FetchingCreated) =>
                IF LastEvent(trace[c])[1] = "get_user"
                   /\ Count(trace[c], "add_user") = 1
                THEN user_id = NewId(1) /\ user_id # supplied
                ELSE user_id = supplied

C18_Witness ==
    /\ ~connected
    /\ supplied = None
    /\ user_id = NewId(1)
    /\ \E c, d \in Callers :
          /\ pc[c] = "done" /\ op[c] = "connect" /\ result[c] = False
          /\ Names(trace[c]) = <<"ping", "add_user", "get_user">>
          /\ pc[d] = "get_user" /\ arg[d] = NewId(1)

----
\* C19: whenever the manager is connected, the stored handle is the one
\* get_user returns for the stored identifier, which is a non-empty id.
C19_HandleMatchesIdentifier ==
    connected => (Truthy(user_id) /\ user = Handle(user_id))

C19_Witness ==
    /\ connected
    /\ supplied = "u0"
    /\ user_id = NewId(1)
    /\ user = Handle(NewId(1))

\* C20: get_user and add_user are issued only after the ping of the same
\* connect sequence returned True; insert, context and flush are in flight
\* only on a connected manager and on its non-null handle; and no call was
\* ever attempted on a null handle.
C20_RemoteCallOrder ==
    \A c \in Callers :
        /\ pc[c] \in ConnectPcs \ {"ping"} =>
              (trace[c] # <<>> /\ trace[c][1] = <<"ping", None, True>>)
        /\ \A i \in Events(trace[c], {"get_user", "add_user"}) :
              trace[c][1] = <<"ping", None, True>>
        /\ Count(trace[c], "ping") <= 1
        /\ pc[c] \in {"insert", "context", "flush"} =>
              /\ connected
              /\ user # None
              /\ arg[c] = user
        /\ \A i \in Events(trace[c], UserCalls) :
              /\ trace[c][i][2] # None
              /\ trace[c][i][3] # "AttributeError"
              /\ connected

C20_Witness ==
    \E c, d \in Callers :
        /\ pc[c] = "context" /\ arg[c] = user
        /\ Names(trace[c]) = <<"ping", "get_user", "add_user", "get_user">>
        /\ pc[d] = "done" /\ ConnectFailed(d)

====
